---- MODULE Spec2Model ----
(***************************************************************************)
(* A state-machine model of predict.py: Predictor.predict (seed parsing    *)
(* and alignment, the frame directory, the two nested interpolation loops, *)
(* the video encoder call), run_cmd and slerp.                             *)
(*                                                                         *)
(* Strings are sequences of one-character strings, so that split, strip,   *)
(* isdigit and int are computed and not assumed.  The collaborators        *)
(* (text encoder, torch.randn, the diffusion pipeline, ffmpeg) are opaque: *)
(* their results are records naming what they were called with.            *)
(***************************************************************************)
EXTENDS Integers, Sequences, FiniteSets, TLC

VARIABLES
    pc,             \* position of the process in predict ("idle" between calls)
    num_steps,      \* predict's num_steps argument
    sched_arg,      \* predict's scheduler argument
    prompts,        \* local prompts (list of stripped prompts; tail after line 123)
    seeds,          \* local seeds once it is a list of ints (tail after line 126)
    all_prompts,    \* history: the prompt list of line 85
    all_seeds,      \* history: the aligned seed list of lines 86-102
    seed_tokens,    \* history: the stripped seed tokens of line 90 (<<>> when seeds is None)
    embeds_a, latents_a, embeds_b, latents_b,
    pair,           \* number of (prompt, seed) pairs the outer for loop has taken
    ts,             \* the values of np.linspace(0, 1, num_steps) of the current pair
    i,              \* enumerate index of the inner loop
    frame_index,
    scheduler,      \* self.pipeline.scheduler
    outdir,         \* the directory cog_out: [exists, files], files: index -> who wrote it
    video,          \* /tmp/out.mp4: "none", "cur" (written by this run) or "stale"
    stdout,         \* the COUNT lines printed by this run
    steps,          \* history: one record per inner-loop iteration of this run
    embed_calls,    \* history: prompts handed to pipeline.embed_text by this run
    encoder_calls,  \* history: one record per ffmpeg invocation of this run
    exc,            \* the exception that ended the run, "none" otherwise
    ret,            \* predict's return value, "none" otherwise
    sl              \* the activation record of a direct call of slerp

vars == <<pc, num_steps, sched_arg, prompts, seeds, all_prompts, all_seeds,
          seed_tokens, embeds_a, latents_a, embeds_b, latents_b, pair, ts, i,
          frame_index, scheduler, outdir, video, stdout, steps, embed_calls,
          encoder_calls, exc, ret, sl>>

----------------------------------------------------------------------------
(* Bounds of the model *)

\* longest seed string, in tokens, that a call is given
MaxSeedTokens == 3
\* largest num_steps of the calls of Spec
MaxSteps == 3
\* smallest num_steps of the long runs of SpecProgress
LongSteps == 10
\* largest denominator of the interpolation parameter handed to slerp directly
MaxDen == 3

----------------------------------------------------------------------------
(* Strings *)

Whitespace == {" "}
DecimalChars == {"0", "1", "2", "3", "4", "5", "6", "7", "8", "9"}
\* "SUP2" stands for one non-ASCII digit character (U+00B2): str.isdigit
\* accepts it, int() does not
DigitChars == DecimalChars \cup {"SUP2"}

RECURSIVE SplitAcc(_, _, _)
SplitAcc(s, cur, acc) ==
    IF s = <<>> THEN Append(acc, cur)
    ELSE IF Head(s) = "|" THEN SplitAcc(Tail(s), <<>>, Append(acc, cur))
    ELSE SplitAcc(Tail(s), Append(cur, Head(s)), acc)

\* str.split("|")
Split(s) == SplitAcc(s, <<>>, <<>>)

RECURSIVE LStrip(_)
LStrip(s) == IF s # <<>> /\ Head(s) \in Whitespace THEN LStrip(Tail(s)) ELSE s

RECURSIVE RStrip(_)
RStrip(s) ==
    IF s # <<>> /\ s[Len(s)] \in Whitespace
    THEN RStrip(SubSeq(s, 1, Len(s) - 1)) ELSE s

\* str.strip()
Strip(s) == RStrip(LStrip(s))

StripAll(xs) == [n \in 1..Len(xs) |-> Strip(xs[n])]

\* str.isdigit(): non-empty and every character a digit
IsDigit(tok) == tok # <<>> /\ \A n \in 1..Len(tok) : tok[n] \in DigitChars

DigitVal(c) ==
    CASE c = "0" -> 0 [] c = "1" -> 1 [] c = "2" -> 2 [] c = "3" -> 3
      [] c = "4" -> 4 [] c = "5" -> 5 [] c = "6" -> 6 [] c = "7" -> 7
      [] c = "8" -> 8 [] c = "9" -> 9

\* int(s) parses a decimal literal; it raises ValueError on anything else
IntParses(tok) == tok # <<>> /\ \A n \in 1..Len(tok) : tok[n] \in DecimalChars

RECURSIVE IntAcc(_, _)
IntAcc(tok, acc) ==
    IF tok = <<>> THEN acc ELSE IntAcc(Tail(tok), 10 * acc + DigitVal(Head(tok)))

IntOf(tok) == IntAcc(tok, 0)

----------------------------------------------------------------------------
(* Seed alignment, lines 85-102 *)

\* int.from_bytes(os.urandom(2), "big") ranges over 0 .. 2^16 - 1; the model
\* draws from the two ends of the range
Urandom2 == {0, 2^16 - 1}

\* a faulty SeedsValid: the assert placed after the truncation of line 96
C2_ValidateFirstPrompts(tokens, nprompts) ==
    \A n \in 1..Len(tokens) : n <= nprompts => IsDigit(tokens[n])

\* lines 91-92: every token is asserted to be a digit string, before truncation
SeedsValid(tokens, nprompts) == \A n \in 1..Len(tokens) : IsDigit(tokens[n])

\* a faulty AlignSeeds: line 96 left out
C1_AlignNoTruncate(given, nprompts, fresh) == given \o fresh

\* lines 95-102: truncate, or append the generated seeds
AlignSeeds(given, nprompts, fresh) ==
    IF Len(given) > nprompts
    THEN SubSeq(given, 1, nprompts)
    ELSE given \o fresh

\* how many seeds lines 88 and 98-102 generate
SeedsNotSet(ngiven, nprompts) ==
    IF ngiven > nprompts THEN 0 ELSE nprompts - ngiven

NoSeeds == [given |-> FALSE, text |-> <<>>]
SeedString(s) == [given |-> TRUE, text |-> s]

----------------------------------------------------------------------------
(* Collaborators and small helpers of predict *)

None == <<>>

\* self.pipeline.embed_text(prompt): the embedding of that prompt
EmbedText(p) == <<"embed", p>>

\* torch.randn(..., generator=Generator().manual_seed(seed)): the latent of that seed
RandnSeeded(seed) == <<"randn", seed>>

\* a faulty Linspace: np.linspace(0, 1, n, endpoint=False)
C8_LinspaceNoEndpoint(n) == [m \in 1..n |-> <<m - 1, n>>]

\* np.linspace(0, 1, n) for n >= 0, each value a fraction <<numerator, denominator>>:
\* n evenly spaced values from 0 to 1, the single value 0 when n = 1
Linspace(n) ==
    IF n = 1 THEN << <<0, 1>> >> ELSE [m \in 1..n |-> <<m - 1, n - 1>>]

\* a faulty DoPrintProgress: the every-20th-frame test left out
C10_PrintOnlyAtPairStart(idx, fi) == idx = 0

\* line 150
DoPrintProgress(idx, fi) == (idx = 0) \/ ((fi + 1) % 20 = 0)

\* a faulty RecreateDir: makedirs(exist_ok=True) without the rmtree
C9_KeepDir(d) == [exists |-> TRUE, files |-> d.files]

\* lines 119-121: rmtree if it exists, then makedirs
RecreateDir(d) == [exists |-> TRUE, files |-> <<>>]

\* im.save(outdir/frame%06d.jpg % index): creates or overwrites that file
SaveFrame(d, index) ==
    [d EXCEPT !.files = [n \in (DOMAIN d.files) \cup {index} |->
                            IF n = index THEN "cur" ELSE d.files[n]]]

\* a faulty AdvanceAnchor: lines 174-175 left out
C7_KeepAnchor(a, b) == a

\* lines 174-175: the target of the finished pair becomes the anchor
AdvanceAnchor(a, b) == b

\* a faulty FrameIndexAtPair: frame_index = 0 placed inside the outer loop
C3_ResetPerPair(fi) == 0

\* the frame counter is set once, at line 135, and carried from pair to pair
FrameIndexAtPair(fi) == fi

\* run_cmd's handler, lines 196-198, calls sys.exit(1); the module's imports,
\* lines 1-12, do not include sys
SysImported == FALSE

\* what the handler of lines 196-198 raises
InterruptHandlerRaises == IF SysImported THEN "SystemExit(1)" ELSE "NameError"

VideoPath == "/tmp/out.mp4"

Stale(d) == [d EXCEPT !.files = [n \in DOMAIN d.files |-> "stale"]]

----------------------------------------------------------------------------
(* slerp is idle while predict runs *)

SlIdle == [pc |-> "idle"]

----------------------------------------------------------------------------
(* predict *)

Init ==
    /\ pc = "idle"
    /\ num_steps = 0
    /\ sched_arg = "none"
    /\ prompts = <<>>
    /\ seeds = <<>>
    /\ all_prompts = <<>>
    /\ all_seeds = <<>>
    /\ seed_tokens = <<>>
    /\ embeds_a = None /\ latents_a = None /\ embeds_b = None /\ latents_b = None
    /\ pair = 0
    /\ ts = <<>>
    /\ i = 0
    /\ frame_index = 0
    /\ scheduler = "from_pretrained"
    /\ outdir = [exists |-> FALSE, files |-> <<>>]
    /\ video = "none"
    /\ stdout = <<>>
    /\ steps = <<>>
    /\ embed_calls = <<>>
    /\ encoder_calls = <<>>
    /\ exc = "none"
    /\ ret = "none"
    /\ sl = SlIdle

\* lines 85-106: the call, the prompt list, the seed list
Predict(p_in, s_in, sch_in, k_in) ==
    /\ pc = "idle"
    /\ num_steps' = k_in
    /\ sched_arg' = sch_in
    /\ LET ps == StripAll(Split(p_in))
           toks == IF s_in.given THEN StripAll(Split(s_in.text)) ELSE <<>>
       IN  /\ prompts' = ps
           /\ all_prompts' = ps
           /\ seed_tokens' = toks
           /\ IF ~s_in.given
              THEN \E fresh \in [1..Len(ps) -> Urandom2] :
                      /\ seeds' = fresh
                      /\ all_seeds' = fresh
                      /\ pc' = "setup"
                      /\ exc' = "none"
              ELSE IF ~SeedsValid(toks, Len(ps))
              THEN /\ pc' = "raised"
                   /\ exc' = "AssertionError"
                   /\ UNCHANGED <<seeds, all_seeds>>
              ELSE IF \E n \in 1..Len(toks) : ~IntParses(toks[n])
              THEN /\ pc' = "raised"
                   /\ exc' = "ValueError"
                   /\ UNCHANGED <<seeds, all_seeds>>
              ELSE \E fresh \in [1..SeedsNotSet(Len(toks), Len(ps)) -> Urandom2] :
                      LET given == [n \in 1..Len(toks) |-> IntOf(toks[n])]
                          aligned == AlignSeeds(given, Len(ps), fresh)
                      IN  /\ seeds' = aligned
                          /\ all_seeds' = aligned
                          /\ pc' = "setup"
                          /\ exc' = "none"
    /\ UNCHANGED <<embeds_a, latents_a, embeds_b, latents_b, pair, ts, i,
                   frame_index, scheduler, outdir, video, stdout, steps,
                   embed_calls, encoder_calls, ret, sl>>

\* lines 115-135: scheduler, frame directory, the first anchor, the counter
Setup ==
    /\ pc = "setup"
    /\ scheduler' = sched_arg
    /\ outdir' = RecreateDir(outdir)
    /\ embeds_a' = EmbedText(Head(prompts))
    /\ embed_calls' = Append(embed_calls, Head(prompts))
    /\ prompts' = Tail(prompts)
    /\ latents_a' = RandnSeeded(Head(seeds))
    /\ seeds' = Tail(seeds)
    /\ frame_index' = 0
    /\ pair' = 0
    /\ pc' = "loop"
    /\ UNCHANGED <<num_steps, sched_arg, all_prompts, all_seeds, seed_tokens,
                   embeds_b, latents_b, ts, i, video, stdout, steps,
                   encoder_calls, exc, ret, sl>>

PairsLeft == pair < (IF Len(prompts) < Len(seeds) THEN Len(prompts) ELSE Len(seeds))

\* lines 136-149: the next (prompt, seed) of the zip, its target, the linspace
NextPair ==
    /\ pc = "loop"
    /\ PairsLeft
    /\ embeds_b' = EmbedText(prompts[pair + 1])
    /\ embed_calls' = Append(embed_calls, prompts[pair + 1])
    /\ latents_b' = RandnSeeded(seeds[pair + 1])
    /\ frame_index' = FrameIndexAtPair(frame_index)
    /\ IF num_steps < 0
       THEN \* np.linspace raises ValueError for a negative number of samples
            /\ pc' = "raised"
            /\ exc' = "ValueError"
            /\ UNCHANGED <<ts, i>>
       ELSE /\ ts' = Linspace(num_steps)
            /\ i' = 0
            /\ pc' = "inner"
            /\ UNCHANGED exc
    /\ UNCHANGED <<num_steps, sched_arg, prompts, seeds, all_prompts, all_seeds,
                   seed_tokens, embeds_a, latents_a, pair, scheduler, outdir,
                   video, stdout, steps, encoder_calls, ret, sl>>

StepRecord(saved) ==
    [pair |-> pair + 1, i |-> i, t |-> ts[i + 1], index |-> frame_index,
     embeds_from |-> embeds_a, embeds_to |-> embeds_b,
     latents_from |-> latents_a, latents_to |-> latents_b, saved |-> saved]

ProgressLine == [count |-> frame_index + 1, total |-> Len(seeds) * num_steps]

PrintProgress ==
    stdout' = IF DoPrintProgress(i, frame_index)
              THEN Append(stdout, ProgressLine) ELSE stdout

\* lines 149-172: one interpolation step; the frame is saved
InnerStep ==
    /\ pc = "inner"
    /\ i < Len(ts)
    /\ PrintProgress
    /\ steps' = Append(steps, StepRecord(TRUE))
    /\ outdir' = SaveFrame(outdir, frame_index)
    /\ frame_index' = frame_index + 1
    /\ i' = i + 1
    /\ UNCHANGED <<pc, num_steps, sched_arg, prompts, seeds, all_prompts,
                   all_seeds, seed_tokens, embeds_a, latents_a, embeds_b,
                   latents_b, pair, ts, scheduler, video, embed_calls,
                   encoder_calls, exc, ret, sl>>

\* lines 149-169: the generation call raises (out of memory, a model error);
\* nothing catches it
GenerationFails ==
    /\ pc = "inner"
    /\ i < Len(ts)
    /\ PrintProgress
    /\ steps' = Append(steps, StepRecord(FALSE))
    /\ pc' = "raised"
    /\ exc' = "PipelineError"
    /\ UNCHANGED <<num_steps, sched_arg, prompts, seeds, all_prompts, all_seeds,
                   seed_tokens, embeds_a, latents_a, embeds_b, latents_b, pair,
                   ts, i, frame_index, scheduler, outdir, video, embed_calls,
                   encoder_calls, ret, sl>>

\* lines 174-175: the inner loop is exhausted
EndPair ==
    /\ pc = "inner"
    /\ i = Len(ts)
    /\ embeds_a' = AdvanceAnchor(embeds_a, embeds_b)
    /\ latents_a' = AdvanceAnchor(latents_a, latents_b)
    /\ pair' = pair + 1
    /\ pc' = "loop"
    /\ UNCHANGED <<num_steps, sched_arg, prompts, seeds, all_prompts, all_seeds,
                   seed_tokens, embeds_b, latents_b, ts, i, frame_index,
                   scheduler, outdir, video, stdout, steps, embed_calls,
                   encoder_calls, exc, ret, sl>>

\* how call() ended: ffmpeg's exit status
ExitStatus(status) == IF status = 0 THEN "exit 0" ELSE "exit non-zero"

EncoderCall(outcome) ==
    [frames |-> outdir.files, frame_index |-> frame_index, outcome |-> outcome]

\* lines 177-190: ffmpeg runs to its end, with any exit status; the status is
\* not looked at and predict returns the path.  ffmpeg writes the video only
\* when it succeeds, and cannot succeed without a first frame.
Encode ==
    /\ pc = "loop"
    /\ ~PairsLeft
    /\ \E status \in {0, 1} :
          /\ status = 0 => 0 \in DOMAIN outdir.files
          /\ encoder_calls' = Append(encoder_calls, EncoderCall(ExitStatus(status)))
          /\ video' = IF status = 0 THEN "cur" ELSE video
    /\ pc' = "returned"
    /\ ret' = VideoPath
    /\ UNCHANGED <<num_steps, sched_arg, prompts, seeds, all_prompts, all_seeds,
                   seed_tokens, embeds_a, latents_a, embeds_b, latents_b, pair,
                   ts, i, frame_index, scheduler, outdir, stdout, steps,
                   embed_calls, exc, sl>>

\* lines 188, 193-198: a KeyboardInterrupt arrives while call() waits for ffmpeg
EncodeInterrupted ==
    /\ pc = "loop"
    /\ ~PairsLeft
    /\ encoder_calls' = Append(encoder_calls, EncoderCall("KeyboardInterrupt"))
    /\ exc' = InterruptHandlerRaises
    /\ pc' = IF InterruptHandlerRaises = "SystemExit(1)" THEN "exited" ELSE "raised"
    /\ UNCHANGED <<num_steps, sched_arg, prompts, seeds, all_prompts, all_seeds,
                   seed_tokens, embeds_a, latents_a, embeds_b, latents_b, pair,
                   ts, i, frame_index, scheduler, outdir, video, stdout, steps,
                   embed_calls, ret, sl>>

\* predict is over (returned or raised): its locals are gone, what it left on
\* disk and in self.pipeline stays for the next call
Return ==
    /\ pc \in {"returned", "raised"}
    /\ pc' = "idle"
    /\ num_steps' = 0
    /\ sched_arg' = "none"
    /\ prompts' = <<>>
    /\ seeds' = <<>>
    /\ all_prompts' = <<>>
    /\ all_seeds' = <<>>
    /\ seed_tokens' = <<>>
    /\ embeds_a' = None /\ latents_a' = None /\ embeds_b' = None /\ latents_b' = None
    /\ pair' = 0
    /\ ts' = <<>>
    /\ i' = 0
    /\ frame_index' = 0
    /\ outdir' = Stale(outdir)
    /\ video' = IF video = "cur" THEN "stale" ELSE video
    /\ stdout' = <<>>
    /\ steps' = <<>>
    /\ embed_calls' = <<>>
    /\ encoder_calls' = <<>>
    /\ exc' = "none"
    /\ ret' = "none"
    /\ UNCHANGED <<scheduler, sl>>

----------------------------------------------------------------------------
(* The calls the specifications make *)

RECURSIVE Join(_)
\* "|".join(tokens)
Join(toks) ==
    IF Len(toks) = 1 THEN toks[1] ELSE toks[1] \o <<"|">> \o Join(Tail(toks))

PromptInputs ==
    { <<"a">>,
      <<"a", "|", "b">>,
      <<" ", "a", " ", "|", "b", " ", "|", " ", "c">>,
      <<"a", "|", "|", "a">> }

SeedTokenInputs == { <<"4", "2">>, <<" ", "7", " ">>, <<>>, <<"x">>, <<"SUP2">> }

SeedStringsOf(tokens, n) ==
    { SeedString(Join(toks)) : toks \in UNION { [1..m -> tokens] : m \in 1..n } }

Driver ==
    \/ Setup \/ NextPair \/ InnerStep \/ GenerationFails \/ EndPair
    \/ Encode \/ EncodeInterrupted \/ Return

\* Spec: every num_steps from -1 to MaxSteps, two schedulers, a few seed strings
SpecSeedInputs ==
    { NoSeeds,
      SeedString(<<"4", "2">>),
      SeedString(<<"7", "|", " ", "4", "2", "|", "7", "|", "1">>),
      SeedString(<<"7", "|", "x">>) }

Next ==
    \/ \E p_in \in PromptInputs, s_in \in SpecSeedInputs,
          sch_in \in {"klms", "ddim"}, k_in \in -1..MaxSteps :
          Predict(p_in, s_in, sch_in, k_in)
    \/ Driver

Spec == Init /\ [][Next]_vars

----------------------------------------------------------------------------
(* slerp, lines 201-225, in fixed point: a number x is held as the integer *)
(* x * Scale, an angle as a whole number of degrees, the interpolation     *)
(* parameter t as a fraction <<numerator, denominator>>                    *)

Scale == 10 ^ 4

\* sin of 0..90 degrees, times Scale
SinTable ==
    <<
       0, 175, 349, 523, 698, 872, 1045, 1219, 1392, 1564,
       1736, 1908, 2079, 2250, 2419, 2588, 2756, 2924, 3090, 3256,
       3420, 3584, 3746, 3907, 4067, 4226, 4384, 4540, 4695, 4848,
       5000, 5150, 5299, 5446, 5592, 5736, 5878, 6018, 6157, 6293,
       6428, 6561, 6691, 6820, 6947, 7071, 7193, 7314, 7431, 7547,
       7660, 7771, 7880, 7986, 8090, 8192, 8290, 8387, 8480, 8572,
       8660, 8746, 8829, 8910, 8988, 9063, 9135, 9205, 9272, 9336,
       9397, 9455, 9511, 9563, 9613, 9659, 9703, 9744, 9781, 9816,
       9848, 9877, 9903, 9925, 9945, 9962, 9976, 9986, 9994, 9998,
       10000
    >>

\* np.sin, for 0..180 degrees
Sin(deg) == IF deg <= 90 THEN SinTable[deg + 1] ELSE SinTable[180 - deg + 1]

Cos(deg) == IF deg <= 90 THEN Sin(90 - deg) ELSE 0 - Sin(deg - 90)

\* np.arccos, for -Scale..Scale, to the whole degree below
ArcCos(x) == Cardinality({deg \in 1..180 : Cos(deg) >= x})

Abs(x) == IF x < 0 THEN 0 - x ELSE x

RECURSIVE ISqrtIn(_, _, _)
ISqrtIn(n, lo, hi) ==
    IF lo = hi THEN lo
    ELSE LET mid == (lo + hi + 1) \div 2
         IN  IF mid * mid <= n THEN ISqrtIn(n, mid, hi) ELSE ISqrtIn(n, lo, mid - 1)

\* the integer square root
ISqrt(n) == ISqrtIn(n, 0, 46340)

\* np.linalg.norm over the whole vector, times 100
Norm(v) == ISqrt((v[1] * v[1] + v[2] * v[2]) * 100 * 100)

\* line 210: sum(v0 * v1 / (norm(v0) * norm(v1))), times Scale
Dot(v0, v1) ==
    LET norms == (Norm(v0) * Norm(v1)) \div (100 * 100)
    IN  (v0[1] * v1[1] * Scale) \div norms + (v0[2] * v1[2] * Scale) \div norms

\* the default of the parameter DOT_THRESHOLD, 0.9995, times Scale
DOT_THRESHOLD == 9995

\* line 212: the weights 1 - t and t, times Scale
LinearWeights(t) == <<((t[2] - t[1]) * Scale) \div t[2], (t[1] * Scale) \div t[2]>>

\* a faulty SphericalWeights: theta_t measured from v1, theta_0 * (1 - t)
C6_ThetaFromFarEnd(dot, t) ==
    LET theta_0 == ArcCos(dot)
        sin_theta_0 == Sin(theta_0)
        theta_t == (theta_0 * (t[2] - t[1])) \div t[2]
        sin_theta_t == Sin(theta_t)
    IN  <<(Sin(theta_0 - theta_t) * Scale) \div sin_theta_0,
          (sin_theta_t * Scale) \div sin_theta_0>>

\* lines 214-219: the weights s0 and s1, times Scale
SphericalWeights(dot, t) ==
    LET theta_0 == ArcCos(dot)
        sin_theta_0 == Sin(theta_0)
        theta_t == (theta_0 * t[1]) \div t[2]
        sin_theta_t == Sin(theta_t)
    IN  <<(Sin(theta_0 - theta_t) * Scale) \div sin_theta_0,
          (sin_theta_t * Scale) \div sin_theta_0>>

\* lines 212 and 220: w[1] * v0 + w[2] * v1
Combine(w, v0, v1) ==
    [c \in 1..2 |-> (w[1] * v0[c] + w[2] * v1[c]) \div Scale]

NdArray(data) == [cls |-> "ndarray", device |-> "cpu", data |-> data]
Tensor(device, data) == [cls |-> "Tensor", device |-> device, data |-> data]

\* lines 204-208: tensors are taken to the cpu as arrays; inputs_are_torch and
\* input_device are bound in that branch only
SlerpConvert ==
    /\ sl.pc = "called"
    /\ sl' = IF sl.v0.cls # "ndarray"
             THEN [sl EXCEPT !.pc = "converted",
                             !.inputs_are_torch = "True",
                             !.input_device = sl.v0.device,
                             !.v0 = NdArray(sl.v0.data),
                             !.v1 = NdArray(sl.v1.data)]
             ELSE [sl EXCEPT !.pc = "converted"]
    /\ UNCHANGED <<pc, num_steps, sched_arg, prompts, seeds, all_prompts,
                   all_seeds, seed_tokens, embeds_a, latents_a, embeds_b,
                   latents_b, pair, ts, i, frame_index, scheduler, outdir,
                   video, stdout, steps, embed_calls, encoder_calls, exc, ret>>

\* lines 210-220
SlerpInterpolate ==
    /\ sl.pc = "converted"
    /\ LET dot == Dot(sl.v0.data, sl.v1.data)
           linear == Abs(dot) > DOT_THRESHOLD
           w == IF linear THEN LinearWeights(sl.t) ELSE SphericalWeights(dot, sl.t)
       IN  sl' = [sl EXCEPT !.pc = "interpolated",
                            !.dot = dot,
                            !.branch = IF linear THEN "linear" ELSE "spherical",
                            !.w = w,
                            !.v2 = NdArray(Combine(w, sl.v0.data, sl.v1.data))]
    /\ UNCHANGED <<pc, num_steps, sched_arg, prompts, seeds, all_prompts,
                   all_seeds, seed_tokens, embeds_a, latents_a, embeds_b,
                   latents_b, pair, ts, i, frame_index, scheduler, outdir,
                   video, stdout, steps, embed_calls, encoder_calls, exc, ret>>

\* lines 222-225: reading inputs_are_torch where it was never bound raises
\* UnboundLocalError
SlerpReturn ==
    /\ sl.pc = "interpolated"
    /\ sl' = IF sl.inputs_are_torch = "unbound"
             THEN [sl EXCEPT !.pc = "raised", !.exc = "UnboundLocalError"]
             ELSE [sl EXCEPT !.pc = "returned",
                             !.v2 = Tensor(sl.input_device, sl.v2.data),
                             !.ret = Tensor(sl.input_device, sl.v2.data)]
    /\ UNCHANGED <<pc, num_steps, sched_arg, prompts, seeds, all_prompts,
                   all_seeds, seed_tokens, embeds_a, latents_a, embeds_b,
                   latents_b, pair, ts, i, frame_index, scheduler, outdir,
                   video, stdout, steps, embed_calls, encoder_calls, exc, ret>>

\* a call slerp(t, v0, v1): the activation record at entry; args keeps the
\* arguments as they were passed
SlerpCalled(t, v0, v1) ==
    [pc |-> "called", t |-> t, v0 |-> v0, v1 |-> v1, args |-> <<t, v0, v1>>,
     inputs_are_torch |-> "unbound", input_device |-> "unbound",
     dot |-> 0, branch |-> "none", w |-> <<>>, v2 |-> NdArray(<<>>),
     ret |-> NdArray(<<>>), exc |-> "none"]

\* non-zero vectors: parallel, antiparallel, orthogonal, and either side of
\* the threshold ((100, 3) is 1.7 degrees from (100, 0), (100, 4) is 2.3)
VectorInputs ==
    { <<100, 0>>, <<50, 0>>, <<0, 100>>, <<-100, 0>>, <<100, 3>>, <<100, 4>>,
      <<60, 80>>, <<-60, -80>> }

FractionInputs == { <<n, d>> : n \in 0..MaxDen, d \in 1..MaxDen } \cap
                  { f \in (0..MaxDen) \X (1..MaxDen) : f[1] <= f[2] }

SlerpInputs ==
    { SlerpCalled(t, NdArray(a), NdArray(b)) :
        t \in FractionInputs, a \in VectorInputs, b \in VectorInputs }
    \cup
    { SlerpCalled(t, Tensor(dev, a), Tensor(dev, b)) :
        t \in FractionInputs, a \in VectorInputs, b \in VectorInputs,
        dev \in {"cuda", "cpu"} }

InitSlerp ==
    /\ pc = "idle"
    /\ num_steps = 0
    /\ sched_arg = "none"
    /\ prompts = <<>>
    /\ seeds = <<>>
    /\ all_prompts = <<>>
    /\ all_seeds = <<>>
    /\ seed_tokens = <<>>
    /\ embeds_a = None /\ latents_a = None /\ embeds_b = None /\ latents_b = None
    /\ pair = 0
    /\ ts = <<>>
    /\ i = 0
    /\ frame_index = 0
    /\ scheduler = "from_pretrained"
    /\ outdir = [exists |-> FALSE, files |-> <<>>]
    /\ video = "none"
    /\ stdout = <<>>
    /\ steps = <<>>
    /\ embed_calls = <<>>
    /\ encoder_calls = <<>>
    /\ exc = "none"
    /\ ret = "none"
    /\ sl \in SlerpInputs

NextSlerp == SlerpConvert \/ SlerpInterpolate \/ SlerpReturn

\* SpecSlerp: slerp called directly on every input of SlerpInputs
SpecSlerp == InitSlerp /\ [][NextSlerp]_vars

----------------------------------------------------------------------------
(* Two more sets of calls of predict *)

\* SpecAlign: every seed string of up to MaxSeedTokens tokens, and no seed
\* string; the calls ask for a scheduler other than the one from_pretrained left
NextAlign ==
    \/ \E p_in \in PromptInputs,
          s_in \in {NoSeeds} \cup SeedStringsOf(SeedTokenInputs, MaxSeedTokens),
          sch_in \in {"ddim"}, k_in \in {1} :
          Predict(p_in, s_in, sch_in, k_in)
    \/ Driver

SpecAlign == Init /\ [][NextAlign]_vars

\* SpecProgress: runs long enough to reach the twentieth frame
NextProgress ==
    \/ \E p_in \in PromptInputs, s_in \in SpecSeedInputs,
          sch_in \in {"klms"}, k_in \in {-1, LongSteps, LongSteps + 1} :
          Predict(p_in, s_in, sch_in, k_in)
    \/ Driver

SpecProgress == Init /\ [][NextProgress]_vars

----------------------------------------------------------------------------
(* Claims about predict *)

NPrompts == Len(all_prompts)
NTokens == Len(seed_tokens)
GivenSeeds == [n \in 1..NTokens |-> IntOf(seed_tokens[n])]
FrameTotal == (NPrompts - 1) * num_steps
\* the run is past line 124
InDriver == pc \in {"loop", "inner", "returned"} \/ (pc = "raised" /\ embed_calls # <<>>)
Saved == SelectSeq(steps, LAMBDA r : r.saved)

AllDecimal(tokens) == \A n \in 1..Len(tokens) : IntParses(tokens[n])

AlignedAsClaimed ==
    /\ NPrompts >= 1
    /\ Len(all_seeds) = NPrompts
    /\ seeds = all_seeds
    /\ NTokens >= NPrompts => all_seeds = SubSeq(GivenSeeds, 1, NPrompts)
    /\ NTokens < NPrompts =>
          /\ SubSeq(all_seeds, 1, NTokens) = GivenSeeds
          /\ \A n \in (NTokens + 1)..NPrompts : all_seeds[n] \in Urandom2

\* C1: a call with no seed string, or with a seed string of S >= 1 decimal
\* tokens, gets past lines 85-106 with a seed list as long as the prompt
\* list (P >= 1): with S >= P it is the first P given seeds in order, with
\* S < P (S = 0 when no string is given) it is the S given seeds in order
\* followed by P - S generated seeds.
C1_SeedAlignment ==
    [][ (pc = "idle" /\ AllDecimal(seed_tokens')) =>
            (pc' = "setup" /\ AlignedAsClaimed') ]_vars

C1_Witness_PaddedSeeds ==
    /\ pc = "setup"
    /\ NTokens = 1
    /\ NPrompts = 3
    /\ all_seeds[1] = 42

HasNonDigitToken(tokens) == \E n \in 1..Len(tokens) : ~IsDigit(tokens[n])

\* C2: a call whose seed string has a token that is not a digit string (an
\* empty token, a token past the prompt count) ends with the assertion error
\* as its first step: no seed list, no scheduler selected, the frame
\* directory as it was, no text encoder, pipeline or encoder call, no frame;
\* and the run does nothing more.  (A token of digits that int() refuses
\* ends the call the same way, with int()'s ValueError.)
C2_ValidationFirst ==
    [][ /\ (pc = "idle" /\ HasNonDigitToken(seed_tokens')) =>
              /\ pc' = "raised"
              /\ exc' = "AssertionError"
              /\ seeds' = <<>> /\ all_seeds' = <<>>
              /\ UNCHANGED <<scheduler, outdir, video, embed_calls, steps,
                             encoder_calls, frame_index>>
        /\ (pc = "idle" /\ ~AllDecimal(seed_tokens')) =>
              /\ pc' = "raised"
              /\ exc' \in {"AssertionError", "ValueError"}
              /\ seeds' = <<>> /\ all_seeds' = <<>>
              /\ UNCHANGED <<scheduler, outdir, video, embed_calls, steps,
                             encoder_calls, frame_index>>
        /\ (pc = "raised" /\ embed_calls = <<>>) =>
              /\ pc' = "idle"
              /\ scheduler' = scheduler
              /\ DOMAIN outdir'.files = DOMAIN outdir.files
              /\ outdir'.exists = outdir.exists
              /\ embed_calls = <<>> /\ steps = <<>> /\ encoder_calls = <<>>
      ]_vars

C2_Witness_BadTokenPastPrompts ==
    /\ pc = "raised"
    /\ exc = "AssertionError"
    /\ NTokens > NPrompts
    /\ \A n \in 1..NPrompts : IsDigit(seed_tokens[n])
    /\ seed_tokens[NTokens] = <<>>
    /\ 1 \in DOMAIN outdir.files

\* C3: at every point of a run the saved frames carry the indices
\* 0 .. frame_index - 1, written once each in increasing order across the
\* pairs, and a run that returns has written (N - 1) * K frames.
C3_FrameSequence ==
    InDriver =>
        /\ Len(Saved) = frame_index
        /\ \A n \in 1..Len(Saved) : Saved[n].index = n - 1
        /\ DOMAIN outdir.files = 0..(frame_index - 1)
        /\ pc = "returned" => frame_index = FrameTotal

C3_Witness_ThreePrompts ==
    /\ pc = "returned"
    /\ NPrompts = 3
    /\ num_steps = 3
    /\ frame_index = 6
    /\ Saved[4].pair = 2 /\ Saved[4].index = 3

\* C5 as claimed: an interrupt during the encoder command ends in an exit
\* with status 1, and any other outcome of the command lets predict return
\* the video path.
C5_AsClaimed ==
    \A n \in 1..Len(encoder_calls) :
        IF encoder_calls[n].outcome = "KeyboardInterrupt"
        THEN pc = "exited" /\ exc = "SystemExit(1)"
        ELSE pc = "returned" /\ ret = VideoPath /\ exc = "none"

\* C7: every step of the k-th pair interpolates from (embedding of prompt k,
\* latent of seed k) to (embedding of prompt k+1, latent of seed k+1); the
\* anchor is that of the current pair throughout its inner steps and moves
\* only once they are over.
C7_AnchorAdvance ==
    /\ \A n \in 1..Len(steps) :
          LET r == steps[n] IN
          /\ r.pair \in 1..(NPrompts - 1)
          /\ r.pair = (r.index \div num_steps) + 1
          /\ r.embeds_from = EmbedText(all_prompts[r.pair])
          /\ r.latents_from = RandnSeeded(all_seeds[r.pair])
          /\ r.embeds_to = EmbedText(all_prompts[r.pair + 1])
          /\ r.latents_to = RandnSeeded(all_seeds[r.pair + 1])
    /\ pc \in {"loop", "inner"} =>
          /\ pair + 1 <= NPrompts
          /\ embeds_a = EmbedText(all_prompts[pair + 1])
          /\ latents_a = RandnSeeded(all_seeds[pair + 1])

C7_Witness_SecondPair ==
    /\ pc = "inner"
    /\ pair = 1
    /\ i = 1
    /\ all_prompts = << <<"a">>, <<"b">>, <<"c">> >>
    /\ all_seeds[1] = 7 /\ all_seeds[2] = 42 /\ all_seeds[3] = 7
    /\ steps[Len(steps)].latents_from = RandnSeeded(42)

\* the values of t the inner loop of the current pair has visited
Visited == SelectSeq(steps, LAMBDA r : r.pair = pair + 1)
PairDone == pc = "inner" /\ i = Len(ts)
IsFraction(t, n, d) == t[1] * d = n * t[2]

\* C8 as claimed: for every K >= 1 the inner loop visits K values, the first
\* t = 0 and the last t = 1.
C8_AsClaimed ==
    PairDone /\ num_steps >= 1 =>
        /\ Len(Visited) = num_steps
        /\ IsFraction(Visited[1].t, 0, 1)
        /\ IsFraction(Visited[Len(Visited)].t, 1, 1)

\* C8: for K >= 2 the inner loop of every pair visits exactly K values, the
\* m-th being (m - 1) / (K - 1), so the first is 0 and the last is 1; for
\* K = 1 it visits the single value 0; for K = 0 none.
C8_Sampling ==
    PairDone =>
        /\ Len(Visited) = num_steps
        /\ num_steps >= 2 =>
              /\ \A m \in 1..num_steps :
                    IsFraction(Visited[m].t, m - 1, num_steps - 1)
              /\ IsFraction(Visited[1].t, 0, 1)
              /\ IsFraction(Visited[num_steps].t, 1, 1)
        /\ num_steps = 1 => IsFraction(Visited[1].t, 0, 1)

C8_Witness_ThreeValues ==
    /\ PairDone
    /\ num_steps = 3
    /\ pair = 1
    /\ Visited[2].t = <<1, 2>>

NoStaleFrame(files) == \A n \in DOMAIN files : files[n] = "cur"

\* C9: a run that passed validation works in a frame directory that holds
\* no frame of an earlier run; the encoder is invoked at most once per run,
\* by a run that returns or is interrupted in it, never by a run that ended
\* earlier, and what it finds is exactly the frames 0 .. (N-1)*K - 1 of this run.
C9_EncoderInput ==
    /\ pc \in {"loop", "inner", "returned"} => NoStaleFrame(outdir.files)
    /\ Len(encoder_calls) <= 1
    /\ pc = "returned" => Len(encoder_calls) = 1
    /\ pc \in {"idle", "setup", "inner"} => encoder_calls = <<>>
    /\ pc = "loop" /\ PairsLeft => encoder_calls = <<>>
    /\ exc \in {"AssertionError", "ValueError", "PipelineError"} =>
          encoder_calls = <<>>
    /\ \A n \in 1..Len(encoder_calls) :
          /\ DOMAIN encoder_calls[n].frames = 0..(FrameTotal - 1)
          /\ NoStaleFrame(encoder_calls[n].frames)
          /\ encoder_calls[n].frame_index = FrameTotal

C9_Witness_SecondRun ==
    /\ pc = "returned"
    /\ video = "stale"
    /\ Len(encoder_calls) = 1
    /\ encoder_calls[1].outcome = "exit non-zero"
    /\ DOMAIN encoder_calls[1].frames = {0}

Printed(r) == \E n \in 1..Len(stdout) : stdout[n].count = r.index + 1

\* C10 as claimed: a step prints a progress line iff it is the first step of
\* the run or produces an every-20th frame.
C10_AsClaimed ==
    \A n \in 1..Len(steps) :
        Printed(steps[n]) <=>
            (n = 1 \/ (steps[n].index + 1) % 20 = 0)

\* C10: a step prints a progress line iff it is the first step of its pair
\* (i = 0) or produces an every-20th frame; every line printed is of a step;
\* printing leaves the counter and the frames alone (the frames saved are
\* those of the steps, one per step).
C10_Progress ==
    /\ \A n \in 1..Len(steps) :
          Printed(steps[n]) <=>
              (steps[n].i = 0 \/ (steps[n].index + 1) % 20 = 0)
    /\ \A n \in 1..Len(stdout) :
          /\ \E m \in 1..Len(steps) : steps[m].index + 1 = stdout[n].count
          /\ stdout[n].total = FrameTotal
    /\ Len(stdout) <= Len(steps)
    /\ Len(Saved) = frame_index
    /\ \A n \in 1..Len(Saved) : Saved[n].index = n - 1 /\ Saved[n] = steps[n]

C10_Witness_TwentiethFrame ==
    /\ Len(steps) >= 20
    /\ steps[20].i # 0
    /\ steps[20].index = 19
    /\ Printed(steps[20])
    /\ ~Printed(steps[19])

----------------------------------------------------------------------------
(* Claims about slerp *)

SlerpEnded == sl.pc \in {"returned", "raised"}

\* C4 as claimed: slerp returns the interpolated vector in the representation
\* and on the device of its inputs, arrays and tensors alike, and does not fail.
C4_AsClaimed ==
    SlerpEnded =>
        /\ sl.pc = "returned"
        /\ sl.exc = "none"
        /\ sl.ret.cls = sl.args[2].cls
        /\ sl.ret.device = sl.args[2].device
        /\ sl.ret.data = sl.v2.data

\* C6: in either branch the vector slerp computes for t = 0 is v0, with
\* weights 1 and 0, and for t = 1 is v1, with weights 0 and 1.
C6_Endpoints ==
    sl.pc \in {"interpolated", "returned", "raised"} =>
        /\ sl.branch \in {"linear", "spherical"}
        /\ sl.branch = "linear" <=> Abs(sl.dot) > DOT_THRESHOLD
        /\ sl.t[1] = 0 =>
              /\ sl.w = <<Scale, 0>>
              /\ sl.v2.data = sl.args[2].data
        /\ sl.t[1] = sl.t[2] =>
              /\ sl.w = <<0, Scale>>
              /\ sl.v2.data = sl.args[3].data

C6_Witness_SphericalEnd ==
    /\ sl.pc = "interpolated"
    /\ sl.branch = "spherical"
    /\ sl.t = <<3, 3>>
    /\ sl.args[2].data = <<100, 4>>
    /\ sl.v2.data = <<-60, -80>>

====
